---------------------------- MODULE Spec2Model ----------------------------
(***************************************************************************)
(* A model of the conversational agent of src/src/agent.py and of its      *)
(* tools (src/src/tools/*.py).                                             *)
(*                                                                         *)
(* Python strings whose characters matter (user input, shell commands,     *)
(* file contents, old_str/new_str) are sequences of one-character strings. *)
(* Names that are only compared for equality (tool names, paths) are TLA+  *)
(* strings.  A text produced by an f-string is a record holding the fixed  *)
(* part of the message in msg and the interpolated values in other fields. *)
(***************************************************************************)
EXTENDS Integers, Sequences, FiniteSets, TLC

(***************************************************************************)
(* Bounds of the model.                                                    *)
(***************************************************************************)
\* Longest shell command drawn for the shell tool's specification.
MaxCmdLen == 5
\* Remote-model calls attempted in one session.
MaxCalls == 2

\* The characters shell commands are drawn from.
CmdAlphabet == {"l", "s", "r", "M", " ", ">"}

(***************************************************************************)
(* Python str operations, on sequences of characters.                      *)
(***************************************************************************)
UpperChars ==
    {"A", "B", "C", "D", "E", "F", "G", "H", "I", "J", "K", "L", "M",
     "N", "O", "P", "Q", "R", "S", "T", "U", "V", "W", "X", "Y", "Z"}

LowerOf ==
    [c \in UpperChars |->
        CASE c = "A" -> "a" [] c = "B" -> "b" [] c = "C" -> "c"
          [] c = "D" -> "d" [] c = "E" -> "e" [] c = "F" -> "f"
          [] c = "G" -> "g" [] c = "H" -> "h" [] c = "I" -> "i"
          [] c = "J" -> "j" [] c = "K" -> "k" [] c = "L" -> "l"
          [] c = "M" -> "m" [] c = "N" -> "n" [] c = "O" -> "o"
          [] c = "P" -> "p" [] c = "Q" -> "q" [] c = "R" -> "r"
          [] c = "S" -> "s" [] c = "T" -> "t" [] c = "U" -> "u"
          [] c = "V" -> "v" [] c = "W" -> "w" [] c = "X" -> "x"
          [] c = "Y" -> "y" [] c = "Z" -> "z"]

\* str.lower()
Lower(s) ==
    [i \in 1..Len(s) |-> IF s[i] \in UpperChars THEN LowerOf[s[i]] ELSE s[i]]

\* s[i:].startswith(p), i counted from 1
OccursAt(p, s, i) ==
    /\ i + Len(p) - 1 <= Len(s)
    /\ \A k \in 1..Len(p) : s[i + k - 1] = p[k]

\* p in s
Contains(p, s) == \E i \in 1..(Len(s) + 1) : OccursAt(p, s, i)

\* s.startswith(p)
StartsWith(s, p) == OccursAt(p, s, 1)

\* the characters str.strip() and str.split() treat as white space
IsSpace(c) == c \in {" ", "\t", "\n", "\r"}

RECURSIVE LStrip(_)
LStrip(s) ==
    IF s # <<>> /\ IsSpace(Head(s)) THEN LStrip(Tail(s)) ELSE s

RECURSIVE RStrip(_)
RStrip(s) ==
    IF s # <<>> /\ IsSpace(s[Len(s)])
    THEN RStrip(SubSeq(s, 1, Len(s) - 1))
    ELSE s

\* str.strip()
Strip(s) == RStrip(LStrip(s))

\* str.split(): the white-space separated words of s, none of them empty
RECURSIVE SplitFrom(_, _, _)
SplitFrom(s, i, word) ==
    IF i > Len(s)
    THEN IF word = <<>> THEN <<>> ELSE <<word>>
    ELSE IF IsSpace(s[i])
         THEN IF word = <<>>
              THEN SplitFrom(s, i + 1, <<>>)
              ELSE <<word>> \o SplitFrom(s, i + 1, <<>>)
         ELSE SplitFrom(s, i + 1, Append(word, s[i]))

Split(s) == SplitFrom(s, 1, <<>>)

\* str.split(sep)[-1] for a one-character sep: what follows the last sep
RECURSIVE LastField(_, _)
LastField(s, sep) ==
    IF \E i \in 1..Len(s) : s[i] = sep
    THEN LastField(Tail(s), sep)
    ELSE s

\* str.count(p): the non-overlapping occurrences of p, found left to right;
\* the empty string occurs before every character and at the end
RECURSIVE CountFrom(_, _, _)
CountFrom(s, p, i) ==
    IF i > Len(s) - Len(p) + 1 THEN 0
    ELSE IF OccursAt(p, s, i)
         THEN 1 + CountFrom(s, p, i + (IF p = <<>> THEN 1 ELSE Len(p)))
         ELSE CountFrom(s, p, i + 1)

Count(s, p) == CountFrom(s, p, 1)

\* str.replace(old, new): every non-overlapping occurrence, left to right
RECURSIVE ReplaceFrom(_, _, _, _)
ReplaceFrom(s, old, new, i) ==
    IF i > Len(s)
    THEN IF old = <<>> THEN new ELSE <<>>
    ELSE IF old = <<>>
         THEN new \o <<s[i]>> \o ReplaceFrom(s, old, new, i + 1)
         ELSE IF OccursAt(old, s, i)
              THEN new \o ReplaceFrom(s, old, new, i + Len(old))
              ELSE <<s[i]>> \o ReplaceFrom(s, old, new, i + 1)

Replace(s, old, new) == ReplaceFrom(s, old, new, 1)

\* the strings of at most n characters of alphabet
StringsUpTo(alphabet, n) ==
    UNION {[1..k -> alphabet] : k \in 0..n}

(***************************************************************************)
(* Values.                                                                 *)
(***************************************************************************)
\* Python's None
None == [none |-> TRUE]

\* JSON values of a tool_use block's input: a string, a number or null
Str(s) == [t |-> "str", v |-> s]
Num(k) == [t |-> "int", n |-> k]
Null == [t |-> "null"]

\* what a handler leaves behind: the text it returns, the file system after
\* it, and the commands it handed to subprocess.run
Outcome(text, files, run) == [text |-> text, fs |-> files, spawn |-> run]

(***************************************************************************)
(* tools/bash.py                                                           *)
(***************************************************************************)
SAFE_COMMANDS ==
    { <<"l","s">>, <<"c","a","t">>, <<"g","r","e","p">>,
      <<"f","i","n","d">>, <<"h","e","a","d">>, <<"t","a","i","l">>,
      <<"w","c">>, <<"d","u">>, <<"d","f">>,
      <<"p","s">>, <<"p","w","d">>, <<"w","h","o","a","m","i">>,
      <<"d","a","t","e">>, <<"e","c","h","o">>, <<"w","h","i","c","h">>,
      <<"t","y","p","e">>, <<"s","o","r","t">>, <<"u","n","i","q">>,
      <<"c","u","t">>, <<"a","w","k">>, <<"s","e","d">>,
      <<"t","r">>, <<"b","a","s","e","n","a","m","e">>,
      <<"d","i","r","n","a","m","e">>,
      <<"f","i","l","e">>, <<"s","t","a","t">>,
      <<"r","e","a","l","p","a","t","h">>,
      <<"r","e","a","d","l","i","n","k">>, <<"u","n","a","m","e">>,
      <<"u","p","t","i","m","e">>,
      <<"e","n","v">>, <<"p","r","i","n","t","e","n","v">> }

DANGEROUS_PATTERNS ==
    { <<"r","m">>, <<"m","v">>, <<"c","p">>,
      <<"m","k","d","i","r">>, <<"r","m","d","i","r">>, <<"t","o","u","c","h">>,
      <<"c","h","m","o","d">>, <<"c","h","o","w","n">>, <<"s","u","d","o">>,
      <<"s","u">>, <<"p","a","s","s","w","d">>, <<"u","s","e","r","a","d","d">>,
      <<"u","s","e","r","d","e","l">>, <<"m","o","u","n","t">>,
      <<"u","m","o","u","n","t">>,
      <<"k","i","l","l">>, <<"k","i","l","l","a","l","l">>, <<"p","k","i","l","l">>,
      <<"w","g","e","t">>, <<"c","u","r","l">>, <<"s","s","h">>,
      <<"s","c","p">>, <<"r","s","y","n","c">>, <<"g","i","t">>,
      <<"p","i","p">>, <<"n","p","m">>, <<"m","a","k","e">>,
      <<"g","c","c">>, <<"p","y","t","h","o","n">>, <<"n","o","d","e">>,
      <<"r","u","b","y">>, <<">">>, <<">",">">>,
      <<"t","e","e">>, <<"d","d">>, <<"f","d","i","s","k">>,
      <<"p","a","r","t","e","d">>, <<"m","k","f","s">>, <<"f","s","c","k">> }

\* the dangerous patterns found in the lower-cased command
MatchedPatterns(command) ==
    {p \in DANGEROUS_PATTERNS : Contains(p, Lower(command))}

\* _validate_command_safety: the values it may return, None when the command
\* is safe.  DANGEROUS_PATTERNS is a set, iterated in an order that differs
\* from one process to the next, so any pattern found may be the one named.
ValidateCommandSafety(command) ==
    LET command_lower == Lower(command)
        words         == Split(command_lower)
        first_command == IF words # <<>> THEN words[1] ELSE <<>>
        base_command  == LastField(first_command, "/")
        matched       == MatchedPatterns(command)
    IN  IF matched # {}
        THEN {[msg |-> "Error: Command contains dangerous pattern and is blocked for security",
               pattern |-> p] : p \in matched}
        ELSE IF StartsWith(first_command, <<".", "/">>)
                \/ StartsWith(first_command, <<"/">>)
             THEN {[msg |-> "Error: Absolute paths and executable files are not allowed"]}
             ELSE IF base_command # <<>> /\ base_command \notin SAFE_COMMANDS
                  THEN {[msg |-> "Error: Command is not in the whitelist of safe commands",
                         command |-> base_command]}
                  ELSE {None}

\* What subprocess.run(["bash", "-c", command], timeout=15, check=False) may
\* do: complete with some output and exit status, or raise.
SubprocessResults ==
    { [kind |-> "completed", stdout |-> "out", stderr |-> "", returncode |-> 0],
      [kind |-> "completed", stdout |-> "", stderr |-> "err", returncode |-> 1],
      [kind |-> "completed", stdout |-> "", stderr |-> "", returncode |-> 0],
      [kind |-> "TimeoutExpired"],
      [kind |-> "FileNotFoundError"],
      [kind |-> "OSError"] }

\* the text SafeBashTool.execute builds from a completed process
BashOutput(result) ==
    [msg        |-> "output",
     parts      |-> (IF result.stdout # "" THEN <<"STDOUT", result.stdout>> ELSE <<>>)
                    \o (IF result.stderr # "" THEN <<"STDERR", result.stderr>> ELSE <<>>)
                    \o (IF result.stdout = "" /\ result.stderr = ""
                        THEN <<"(No output)">> ELSE <<>>),
     exit_code  |-> IF result.returncode # 0 THEN <<result.returncode>> ELSE <<>>]

\* the text execute returns once subprocess.run was called with command
BashRunText(command, result) ==
    CASE result.kind = "completed" -> BashOutput(result)
      [] result.kind = "TimeoutExpired" ->
            [msg |-> "Command timed out after 15 seconds", command |-> command]
      [] result.kind = "FileNotFoundError" ->
            [msg |-> "Bash not found. This tool requires bash to be installed."]
      [] OTHER ->
            [msg |-> "Unexpected error executing command", command |-> command,
             e |-> result.kind]

\* SafeBashTool.execute: the outcomes it may have on files
BashExecute_NoValidation(input_data, files) ==
    LET command == Strip(input_data.command)
    IN  IF command = <<>>
        THEN {Outcome([msg |-> "Error: Empty command provided"], files, <<>>)}
        ELSE {Outcome(BashRunText(command, r), files, <<command>>) :
                r \in SubprocessResults}

BashExecute(input_data, files) ==
    LET command == Strip(input_data.command)
    IN  IF command = <<>>
        THEN {Outcome([msg |-> "Error: Empty command provided"], files, <<>>)}
        ELSE UNION {
               IF security_error # None
               THEN {Outcome(security_error, files, <<>>)}
               ELSE {Outcome(BashRunText(command, r), files, <<command>>) :
                       r \in SubprocessResults}
               : security_error \in ValidateCommandSafety(command)}

(***************************************************************************)
(* The file system the file tools act on: each path of Paths holds         *)
(* nothing, a directory or a file.  "." is the working directory.  A       *)
(* locked node refuses to be read or written (PermissionError); a file     *)
(* whose utf8 is FALSE holds bytes that are no UTF-8 text.                 *)
(***************************************************************************)
Paths == {".", "a.txt", "bin.dat", "locked.txt", "missing.txt", "sub", "sub/b.txt"}

\* Path.parent
ParentOf(p) == IF p = "sub/b.txt" THEN "sub" ELSE "."

\* the paths in sorted() order
SortedPaths ==
    <<".", "a.txt", "bin.dat", "locked.txt", "missing.txt", "sub", "sub/b.txt">>

NoNode == [kind |-> "none", data |-> <<>>, utf8 |-> TRUE, locked |-> FALSE]
DirNode == [kind |-> "dir", data |-> <<>>, utf8 |-> TRUE, locked |-> FALSE]
FileNode(data) == [kind |-> "file", data |-> data, utf8 |-> TRUE, locked |-> FALSE]

\* Path.exists(): a path below something that is no directory does not exist
Exists(files, p) ==
    /\ files[p].kind # "none"
    /\ p = "." \/ files[ParentOf(p)].kind = "dir"

\* Path.is_file(), Path.is_dir()
IsFile(files, p) == Exists(files, p) /\ files[p].kind = "file"
IsDir(files, p) == Exists(files, p) /\ files[p].kind = "dir"

\* Path.read_text(encoding="utf-8") of an existing file: the text, or the
\* exception raised
ReadText(files, p) ==
    IF files[p].locked THEN [raised |-> "PermissionError"]
    ELSE IF ~files[p].utf8 THEN [raised |-> "UnicodeDecodeError"]
    ELSE [raised |-> "", text |-> files[p].data]

\* Path.write_text(data, encoding="utf-8"): the files after it, or the
\* exception raised.  Writing a file that exists needs the file writable,
\* creating one needs its directory writable.
WriteText(files, p, data) ==
    IF (Exists(files, p) /\ files[p].locked)
       \/ (~Exists(files, p) /\ files[ParentOf(p)].locked)
    THEN [raised |-> "PermissionError"]
    ELSE [raised |-> "", fs |-> [files EXCEPT ![p] = FileNode(data)]]

\* Path.mkdir(parents=True, exist_ok=True)
Mkdir(files, d) ==
    IF IsDir(files, d) THEN [raised |-> "", fs |-> files]
    ELSE IF files[d].kind = "file" THEN [raised |-> "FileExistsError"]
    ELSE IF files[ParentOf(d)].locked THEN [raised |-> "PermissionError"]
    ELSE [raised |-> "", fs |-> [files EXCEPT ![d] = DirNode]]

(***************************************************************************)
(* tools/read_file.py                                                      *)
(***************************************************************************)
ReadFileExecute(input_data, files) ==
    LET file_path == input_data.path
        content   == ReadText(files, file_path)
    IN  IF ~Exists(files, file_path)
        THEN {Outcome([msg |-> "File not found", path |-> file_path], files, <<>>)}
        ELSE IF ~IsFile(files, file_path)
        THEN {Outcome([msg |-> "Path is not a file", path |-> file_path], files, <<>>)}
        ELSE IF content.raised = "PermissionError"
        THEN {Outcome([msg |-> "Permission denied reading file", path |-> file_path],
                      files, <<>>)}
        ELSE IF content.raised = "UnicodeDecodeError"
        THEN {Outcome([msg |-> "Cannot decode file as UTF-8", path |-> file_path],
                      files, <<>>)}
        ELSE {Outcome([msg |-> "", content |-> content.text], files, <<>>)}

(***************************************************************************)
(* tools/list_files.py                                                     *)
(***************************************************************************)
\* _format_size; every file of the model is shorter than 1024 bytes
FormatSize(size_bytes) == [n |-> size_bytes, unit |-> "bytes"]

\* the entries of directory d, in sorted order
RECURSIVE EntriesFrom(_, _, _)
EntriesFrom(files, d, i) ==
    IF i > Len(SortedPaths) THEN <<>>
    ELSE LET item == SortedPaths[i]
         IN  (IF item # "." /\ ParentOf(item) = d /\ Exists(files, item)
              THEN IF IsDir(files, item)
                   THEN <<[name |-> item, dir |-> TRUE]>>
                   ELSE <<[name |-> item, size |-> FormatSize(Len(files[item].data))]>>
              ELSE <<>>)
             \o EntriesFrom(files, d, i + 1)

ListFilesExecute(input_data, files) ==
    LET dir_path == IF input_data.path.t = "null" THEN "." ELSE input_data.path.v
        entries  == EntriesFrom(files, dir_path, 1)
    IN  IF ~Exists(files, dir_path)
        THEN {Outcome([msg |-> "Directory not found", path |-> dir_path], files, <<>>)}
        ELSE IF ~IsDir(files, dir_path)
        THEN {Outcome([msg |-> "Path is not a directory", path |-> dir_path],
                      files, <<>>)}
        ELSE IF files[dir_path].locked
        THEN {Outcome([msg |-> "Permission denied accessing directory",
                       path |-> dir_path], files, <<>>)}
        ELSE IF entries = <<>>
        THEN {Outcome([msg |-> "Directory is empty", path |-> dir_path], files, <<>>)}
        ELSE {Outcome([msg |-> "Contents of", path |-> dir_path, entries |-> entries],
                      files, <<>>)}

(***************************************************************************)
(* tools/edit_file.py                                                      *)
(***************************************************************************)
\* the except clauses of EditFileTool.execute
EditFileRaised(file_path, exc, files) ==
    IF exc = "PermissionError"
    THEN Outcome([msg |-> "Permission denied writing to file", path |-> file_path],
                 files, <<>>)
    ELSE Outcome([msg |-> "Unexpected error editing file", path |-> file_path,
                  e |-> exc], files, <<>>)

\* execute from "Perform replacement" on: files are the files after mkdir
EditFileReplace_FirstOnly(file_path, old_str, new_str, original_content, files) ==
    IF Contains(old_str, original_content)
    THEN LET occurrence_count == Count(original_content, old_str)
             first == CHOOSE i \in 1..(Len(original_content) + 1) :
                         /\ OccursAt(old_str, original_content, i)
                         /\ \A j \in 1..(i - 1) : ~OccursAt(old_str, original_content, j)
             new_content == SubSeq(original_content, 1, first - 1) \o new_str
                            \o SubSeq(original_content, first + Len(old_str),
                                      Len(original_content))
             written == WriteText(files, file_path, new_content)
         IN  IF written.raised # ""
             THEN EditFileRaised(file_path, written.raised, files)
             ELSE Outcome([msg |-> "Successfully edited", path |-> file_path,
                           occurrences |-> occurrence_count], written.fs, <<>>)
    ELSE IF ~Exists(files, file_path) /\ old_str = <<>>
         THEN LET written == WriteText(files, file_path, new_str)
              IN  IF written.raised # ""
                  THEN EditFileRaised(file_path, written.raised, files)
                  ELSE Outcome([msg |-> "Created new file", path |-> file_path],
                               written.fs, <<>>)
         ELSE Outcome([msg |-> "String not found in file", old_str |-> old_str],
                      files, <<>>)

EditFileReplace(file_path, old_str, new_str, original_content, files) ==
    IF Contains(old_str, original_content)
    THEN LET occurrence_count == Count(original_content, old_str)
             new_content      == Replace(original_content, old_str, new_str)
             written          == WriteText(files, file_path, new_content)
         IN  IF written.raised # ""
             THEN EditFileRaised(file_path, written.raised, files)
             ELSE Outcome([msg |-> "Successfully edited", path |-> file_path,
                           occurrences |-> occurrence_count], written.fs, <<>>)
    ELSE IF ~Exists(files, file_path) /\ old_str = <<>>
         THEN LET written == WriteText(files, file_path, new_str)
              IN  IF written.raised # ""
                  THEN EditFileRaised(file_path, written.raised, files)
                  ELSE Outcome([msg |-> "Created new file", path |-> file_path],
                               written.fs, <<>>)
         ELSE Outcome([msg |-> "String not found in file", old_str |-> old_str],
                      files, <<>>)

EditFileExecute(input_data, files) ==
    LET file_path == input_data.path
        old_str   == input_data.old_str
        new_str   == input_data.new_str
        made      == Mkdir(files, ParentOf(file_path))
    IN  IF made.raised # ""
        THEN {EditFileRaised(file_path, made.raised, files)}
        ELSE IF Exists(made.fs, file_path)
        THEN IF ~IsFile(made.fs, file_path)
             THEN {Outcome([msg |-> "Path exists but is not a file",
                            path |-> file_path], made.fs, <<>>)}
             ELSE LET content == ReadText(made.fs, file_path)
                  IN  IF content.raised = "UnicodeDecodeError"
                      THEN {Outcome([msg |-> "Cannot decode file as UTF-8",
                                     path |-> file_path], made.fs, <<>>)}
                      ELSE IF content.raised # ""
                      THEN {EditFileRaised(file_path, content.raised, made.fs)}
                      ELSE {EditFileReplace(file_path, old_str, new_str,
                                            content.text, made.fs)}
        ELSE {EditFileReplace(file_path, old_str, new_str, <<>>, made.fs)}

(***************************************************************************)
(* tools/base.py: BaseTool.__call__ and the pydantic input models          *)
(***************************************************************************)
IsStr(kwargs, f) == f \in DOMAIN kwargs /\ kwargs[f].t = "str"

\* input_model(**kwargs): the validated input, or ValidationError.  A field
\* typed str takes only a string; fields the model does not name are ignored.
ReadFileInput(kwargs) ==
    IF IsStr(kwargs, "path")
    THEN [raised |-> "", input |-> [path |-> kwargs["path"].v]]
    ELSE [raised |-> "ValidationError"]

\* path: str | None, "." when absent; the field keeps its tag, Str or Null
ListFilesInput(kwargs) ==
    IF "path" \notin DOMAIN kwargs
    THEN [raised |-> "", input |-> [path |-> Str(".")]]
    ELSE IF kwargs["path"].t = "null" \/ IsStr(kwargs, "path")
    THEN [raised |-> "", input |-> [path |-> kwargs["path"]]]
    ELSE [raised |-> "ValidationError"]

BashInput(kwargs) ==
    IF IsStr(kwargs, "command")
    THEN [raised |-> "", input |-> [command |-> kwargs["command"].v]]
    ELSE [raised |-> "ValidationError"]

\* the three fields, then strings_must_be_different
EditFileInput(kwargs) ==
    IF ~(IsStr(kwargs, "path") /\ IsStr(kwargs, "old_str") /\ IsStr(kwargs, "new_str"))
    THEN [raised |-> "ValidationError"]
    ELSE IF kwargs["old_str"].v = kwargs["new_str"].v
    THEN [raised |-> "ValidationError"]
    ELSE [raised |-> "", input |-> [path    |-> kwargs["path"].v,
                                    old_str |-> kwargs["old_str"].v,
                                    new_str |-> kwargs["new_str"].v]]

\* the tool objects: the four instances the tool modules create, and one
\* object that only follows the Tool protocol of agent.py
read_file_tool == [name |-> "read_file", impl |-> "ReadFileTool"]
list_files_tool == [name |-> "list_files", impl |-> "ListFilesTool"]
bash_tool == [name |-> "bash", impl |-> "SafeBashTool"]
edit_file_tool == [name |-> "edit_file", impl |-> "EditFileTool"]
protocol_tool == [name |-> "custom", impl |-> "Tool"]

InputModel(tool, kwargs) ==
    CASE tool.impl = "ReadFileTool" -> ReadFileInput(kwargs)
      [] tool.impl = "ListFilesTool" -> ListFilesInput(kwargs)
      [] tool.impl = "SafeBashTool" -> BashInput(kwargs)
      [] tool.impl = "EditFileTool" -> EditFileInput(kwargs)

Execute(tool, input_data, files) ==
    CASE tool.impl = "ReadFileTool" -> ReadFileExecute(input_data, files)
      [] tool.impl = "ListFilesTool" -> ListFilesExecute(input_data, files)
      [] tool.impl = "SafeBashTool" -> BashExecute(input_data, files)
      [] tool.impl = "EditFileTool" -> EditFileExecute(input_data, files)

\* What a call of a tool may do: return a text or raise, with the files it
\* leaves and the commands it spawned; executed tells whether the handler's
\* own code ran.
Returned(o) ==
    [raised |-> "", text |-> o.text, fs |-> o.fs, spawn |-> o.spawn,
     executed |-> TRUE]

Raised(exc, files, ran) ==
    [raised |-> exc, fs |-> files, spawn |-> <<>>, executed |-> ran]

\* BaseTool.__call__
BaseToolCall_NoValidation(tool, kwargs, files) ==
    LET validated_input == InputModel(tool, kwargs)
        lenient == IF validated_input.raised = ""
                   THEN validated_input.input
                   ELSE [f \in {"path", "command", "old_str", "new_str"} |->
                           IF f \in DOMAIN kwargs /\ "v" \in DOMAIN kwargs[f]
                           THEN kwargs[f].v
                           ELSE IF f = "path" THEN "." ELSE <<>>]
    IN  {Returned(o) : o \in Execute(tool, lenient, files)}

BaseToolCall(tool, kwargs, files) ==
    LET validated_input == InputModel(tool, kwargs)
    IN  IF validated_input.raised # ""
        THEN {Raised(validated_input.raised, files, FALSE)}
        ELSE {Returned(o) : o \in Execute(tool, validated_input.input, files)}

\* Tool.__call__ of an object that only follows the protocol: it returns a
\* text or raises, as it likes
ProtocolToolCall(tool, kwargs, files) ==
    { Returned(Outcome([msg |-> "", content |-> <<"o", "k">>], files, <<>>)),
      Raised("RuntimeError", files, TRUE) }

ToolCall(tool, kwargs, files) ==
    IF tool.impl = "Tool"
    THEN ProtocolToolCall(tool, kwargs, files)
    ELSE BaseToolCall(tool, kwargs, files)

(***************************************************************************)
(* agent.py: the registry                                                  *)
(***************************************************************************)
\* self.tools is a dict: a sequence of tool objects, one per name, in the
\* order the names were first inserted
Names(registry) == {registry[i].name : i \in 1..Len(registry)}

Lookup(registry, tool_name) ==
    registry[CHOOSE i \in 1..Len(registry) : registry[i].name = tool_name]

\* self.tools[tool.name] = tool
DictSet_KeepsFirst(registry, tool) ==
    IF tool.name \in Names(registry)
    THEN registry
    ELSE Append(registry, tool)

DictSet(registry, tool) ==
    IF tool.name \in Names(registry)
    THEN [i \in 1..Len(registry) |->
            IF registry[i].name = tool.name THEN tool ELSE registry[i]]
    ELSE Append(registry, tool)

(***************************************************************************)
(* agent.py: Agent._execute_tool                                           *)
(***************************************************************************)
ToolNotFound(tool_name) == [msg |-> "Tool not found", name |-> tool_name]

ToolError(tool_name, e) ==
    [msg |-> "Error executing tool", name |-> tool_name, e |-> e]

\* The results _execute_tool may return, each with the files and processes
\* the call left behind.  raised names the exception the except clause took,
\* escaped one it let through; executed tells whether the handler ran.
ExecuteTool_UnknownRunsFirst(registry, tool_name, tool_input, files) ==
    LET tool == IF tool_name \in Names(registry) \/ registry = <<>>
                THEN tool_name ELSE registry[1].name
    IN  IF tool \notin Names(registry)
        THEN {[result |-> ToolNotFound(tool_name), fs |-> files, spawn |-> <<>>,
               executed |-> FALSE, raised |-> "", escaped |-> ""]}
        ELSE {[result   |-> IF c.raised = "" THEN c.text ELSE ToolError(tool, c.raised),
               fs       |-> c.fs,
               spawn    |-> c.spawn,
               executed |-> c.executed,
               raised   |-> c.raised,
               escaped  |-> ""] :
                c \in ToolCall(Lookup(registry, tool), tool_input, files)}

ExecuteTool_NoExcept(registry, tool_name, tool_input, files) ==
    IF tool_name \notin Names(registry)
    THEN {[result |-> ToolNotFound(tool_name), fs |-> files, spawn |-> <<>>,
           executed |-> FALSE, raised |-> "", escaped |-> ""]}
    ELSE {[result   |-> IF c.raised = "" THEN c.text ELSE ToolError(tool_name, c.raised),
           fs       |-> c.fs,
           spawn    |-> c.spawn,
           executed |-> c.executed,
           raised   |-> "",
           escaped  |-> c.raised] :
            c \in ToolCall(Lookup(registry, tool_name), tool_input, files)}

ExecuteTool(registry, tool_name, tool_input, files) ==
    IF tool_name \notin Names(registry)
    THEN {[result |-> ToolNotFound(tool_name), fs |-> files, spawn |-> <<>>,
           executed |-> FALSE, raised |-> "", escaped |-> ""]}
    ELSE {[result   |-> IF c.raised = "" THEN c.text ELSE ToolError(tool_name, c.raised),
           fs       |-> c.fs,
           spawn    |-> c.spawn,
           executed |-> c.executed,
           raised   |-> c.raised,
           escaped  |-> ""] :
            c \in ToolCall(Lookup(registry, tool_name), tool_input, files)}

(***************************************************************************)
(* The state.                                                              *)
(***************************************************************************)
VARIABLES
    tools,          \* Agent.tools
    conversation,   \* Agent.conversation
    input_fn,       \* Agent.get_user_input: "default" or "injected"
    pc,             \* where run / _process_conversation stands
    user_input,     \* run: the line last read
    message,        \* _process_conversation: the reply being processed
    idx,            \* _process_conversation: the next content block (from 1)
    tool_results,   \* _process_conversation: the results collected so far
    has_tool_use,   \* _process_conversation: a tool_use block was seen
    fs,             \* the files the file tools act on
    spawned,        \* the commands handed to subprocess.run, in order
    console,        \* what was printed since the last prompt
    turn_status,    \* how the last turn ended: "none", "running", "DONE", "ERROR"
    api_calls,      \* the calls of client.messages.create made in the session
    turn_calls,     \* those made in the current turn
    dispatched,     \* the _execute_tool calls of the current turn, in order
    stdin,          \* the source of the input lines: "open", or "eof" once
                    \* input() has met its end
    turn_base,      \* len(conversation) when the line of the turn was read
    added,          \* the tools add_tool was called with, in order
    advertised,     \* tools= of the last client.messages.create
    call_in,        \* a tool called on its own: its input
    call_out,       \* ... and the outcome
    call_pc         \* ... "ready" or "done"

vars ==
    <<tools, conversation, input_fn, pc, user_input, message, idx, tool_results,
      has_tool_use, fs, spawned, console, turn_status, api_calls, turn_calls,
      dispatched, stdin, turn_base, added, advertised, call_in, call_out,
      call_pc>>

agent_vars ==
    <<tools, conversation, input_fn, pc, user_input, message, idx, tool_results,
      has_tool_use, console, turn_status, api_calls, turn_calls, dispatched,
      stdin, turn_base, added, advertised>>

harness_vars == <<call_in, call_out, call_pc>>

(***************************************************************************)
(* What the collaborators may supply.                                      *)
(***************************************************************************)
\* the lines the user may type
UserLines == { <<>>, <<" ">>, <<"h", "i">> }

\* the files at the start of a session
InitialFiles ==
    [p \in Paths |->
        CASE p = "." -> DirNode
          [] p = "a.txt" -> FileNode(<<"a", "a">>)
          [] p = "bin.dat" -> [FileNode(<<"?">>) EXCEPT !.utf8 = FALSE]
          [] p = "locked.txt" -> [FileNode(<<"a">>) EXCEPT !.locked = TRUE]
          [] OTHER -> NoNode]

\* content blocks of a reply, before the remote model gives them ids
Text == [type |-> "text", text |-> "..."]
Use(tool_name, tool_input) ==
    [type |-> "tool_use", name |-> tool_name, input |-> tool_input]

\* the replies the remote model may give
Replies ==
    << <<Text>>,
      <<Text, Use("read_file", [path |-> Str("a.txt")]), Text>>,
      <<Use("read_file", [path |-> Str("missing.txt")]),
        Use("nope", [path |-> Str("a.txt")])>>,
      <<Use("edit_file", [path |-> Str("a.txt"), old_str |-> Str(<<"a">>),
                          new_str |-> Str(<<"b">>)]),
        Use("edit_file", [path |-> Str("a.txt"), old_str |-> Str(<<"a">>),
                          new_str |-> Str(<<"a">>)])>>,
      <<Use("read_file", [file |-> Str("a.txt")]),
        Use("edit_file", [path |-> Str("sub/b.txt"), old_str |-> Str(<<"z">>),
                          new_str |-> Str(<<"y">>)])>>,
      <<Use("bash", [command |-> Str(<<"R", "m", " ", "a">>)]),
        Use("bash", [command |-> Str(<<"l", "s">>)])>>,
      <<Use("custom", <<>>), Use("list_files", <<>>)>>,
      <<Use("read_file", [path |-> Num(7)]),
        Use("read_file", [path |-> Str("locked.txt")])>> >>

\* the reply as the remote model sends it: every tool_use block has an id
\* of its own (here the place of the message and of the block)
WithIds(reply, n) ==
    [role    |-> "assistant",
     content |-> [i \in 1..Len(reply) |->
                    IF reply[i].type = "tool_use"
                    THEN [type  |-> "tool_use", id |-> <<n, i>>,
                          name  |-> reply[i].name, input |-> reply[i].input]
                    ELSE reply[i]]]

\* the order in which the apps register their tools (apps/02 to apps/05),
\* followed by a tool of the caller's own
RegistrationOrder ==
    <<read_file_tool, list_files_tool, bash_tool, edit_file_tool, protocol_tool>>

NoMessage == [role |-> "assistant", content |-> <<>>]

\* _call_claude, lines 217-226 and 235-236: one ToolParam per value of
\* self.tools, in the order of the dict; name, description and input_schema
\* are those of the tool object.  An empty list is passed as None.
ToolParam(tool) == [name |-> tool.name, impl |-> tool.impl]

NotGiven == [given |-> FALSE, tools |-> <<>>]

AnthropicTools(registry) ==
    IF registry = <<>>
    THEN NotGiven
    ELSE [given |-> TRUE,
          tools |-> [i \in 1..Len(registry) |-> ToolParam(registry[i])]]

(***************************************************************************)
(* Messages of the transcript.                                             *)
(***************************************************************************)
\* anthropic.MessageParam(role="user", content=user_input): content is a str
UserMessage(line) == [role |-> "user", form |-> "str", content |-> line]

\* message.to_param(): the role and the content blocks of the reply
ToParam(msg) == [role |-> msg.role, form |-> "blocks", content |-> msg.content]

\* anthropic.ContentBlockParam(type="tool_result", ...)
ToolResultBlock_UsesName(tool_use, result) ==
    [type |-> "tool_result", tool_use_id |-> <<0, tool_use.name>>, content |-> result]

ToolResultBlock(tool_use, result) ==
    [type |-> "tool_result", tool_use_id |-> tool_use.id, content |-> result]

\* anthropic.MessageParam(role="user", content=tool_results)
ToolMessage(results) == [role |-> "user", form |-> "blocks", content |-> results]

(***************************************************************************)
(* Init: the Agent as Agent.__init__ leaves it, before any add_tool.       *)
(***************************************************************************)
HarnessIdle ==
    /\ call_in = <<>>
    /\ call_out = <<>>
    /\ call_pc = "off"

Init ==
    /\ tools = <<>>
    /\ conversation = <<>>
    /\ input_fn \in {"default", "injected"}
    /\ pc = "setup"
    /\ user_input = <<>>
    /\ message = NoMessage
    /\ idx = 1
    /\ tool_results = <<>>
    /\ has_tool_use = FALSE
    /\ fs = InitialFiles
    /\ spawned = <<>>
    /\ console = <<>>
    /\ turn_status = "none"
    /\ api_calls = 0
    /\ turn_calls = 0
    /\ dispatched = <<>>
    /\ stdin = "open"
    /\ turn_base = 0
    /\ added = <<>>
    /\ advertised = NotGiven
    /\ HarnessIdle

(***************************************************************************)
(* Agent.add_tool and the start of Agent.run                               *)
(***************************************************************************)
AddTool(tool) ==
    /\ pc = "setup"
    /\ tools' = DictSet(tools, tool)
    /\ added' = Append(added, tool)
    /\ UNCHANGED <<conversation, input_fn, pc, user_input, message, idx,
                   tool_results, has_tool_use, fs, spawned, console, turn_status,
                   api_calls, turn_calls, dispatched, harness_vars, advertised,
                   stdin, turn_base>>

\* an app's main() registers the next tool of its list
Register ==
    /\ Len(tools) < Len(RegistrationOrder)
    /\ AddTool(RegistrationOrder[Len(tools) + 1])

\* run, up to the loop
Run ==
    /\ pc = "setup"
    /\ pc' = "input"
    /\ console' = <<"Chat with Claude (use 'ctrl-c' to quit)">>
    /\ UNCHANGED <<tools, conversation, input_fn, user_input, message, idx,
                   tool_results, has_tool_use, fs, spawned, turn_status,
                   api_calls, turn_calls, dispatched, harness_vars, added, advertised,
                   stdin, turn_base>>

(***************************************************************************)
(* Agent.run: one pass of the loop up to _process_conversation             *)
(***************************************************************************)
\* get_user_input returns line
ReadLine_NoStrip(line) ==
    /\ pc = "input"
    /\ stdin = "open"
    /\ user_input' = line
    /\ IF line = <<>>
       THEN /\ console' = <<"You: ">>
            /\ UNCHANGED <<conversation, pc, turn_status, turn_calls, dispatched,
                           turn_base>>
       ELSE /\ api_calls < MaxCalls
            /\ conversation' = Append(conversation, UserMessage(line))
            /\ pc' = "call_first"
            /\ console' = <<"You: ">>
            /\ turn_status' = "running"
            /\ turn_calls' = 0
            /\ dispatched' = <<>>
            /\ turn_base' = Len(conversation)
    /\ UNCHANGED <<tools, input_fn, message, idx, tool_results, has_tool_use, fs,
                   spawned, api_calls, stdin, harness_vars, added, advertised>>

ReadLine_DuringTurn(line) ==
    /\ pc \in {"input", "call_again"}
    /\ stdin = "open"
    /\ user_input' = line
    /\ IF Strip(line) = <<>>
       THEN /\ console' = <<"You: ">>
            /\ UNCHANGED <<conversation, pc, turn_status, turn_calls, dispatched,
                           turn_base>>
       ELSE /\ api_calls < MaxCalls
            /\ conversation' = Append(conversation, UserMessage(line))
            /\ pc' = "call_first"
            /\ console' = <<"You: ">>
            /\ turn_status' = "running"
            /\ turn_calls' = 0
            /\ dispatched' = <<>>
            /\ turn_base' = Len(conversation)
    /\ UNCHANGED <<tools, input_fn, message, idx, tool_results, has_tool_use, fs,
                   spawned, api_calls, stdin, harness_vars, added, advertised>>

ReadLine(line) ==
    /\ pc = "input"
    /\ stdin = "open"
    /\ user_input' = line
    /\ IF Strip(line) = <<>>
       THEN /\ console' = <<"You: ">>
            /\ UNCHANGED <<conversation, pc, turn_status, turn_calls, dispatched,
                           turn_base>>
       ELSE /\ api_calls < MaxCalls
            /\ conversation' = Append(conversation, UserMessage(line))
            /\ pc' = "call_first"
            /\ console' = <<"You: ">>
            /\ turn_status' = "running"
            /\ turn_calls' = 0
            /\ dispatched' = <<>>
            /\ turn_base' = Len(conversation)
    /\ UNCHANGED <<tools, input_fn, message, idx, tool_results, has_tool_use, fs,
                   spawned, api_calls, stdin, harness_vars, added, advertised>>

\* input() meets the end of the input (EOFError, and every later input() meets
\* it again) or an interrupt (KeyboardInterrupt): _default_input turns either
\* into the empty line; an injected function lets it through, and run's
\* except clause ends the session
InputEnds(exc) ==
    /\ pc = "input"
    /\ stdin = "eof" => exc = "EOFError"
    /\ stdin' = IF exc = "EOFError" THEN "eof" ELSE stdin
    /\ IF input_fn = "default"
       THEN /\ user_input' = <<>>
            /\ console' = <<"You: ">>
            /\ pc' = pc
       ELSE /\ pc' = "ended"
            /\ console' = <<"You: ", "Goodbye!">>
            /\ UNCHANGED user_input
    /\ UNCHANGED <<tools, conversation, input_fn, message, idx, tool_results,
                   has_tool_use, fs, spawned, turn_status, api_calls, turn_calls,
                   dispatched, turn_base, harness_vars, added, advertised>>

\* KeyboardInterrupt raised anywhere else inside run's try block: no except
\* clause of _process_conversation or _execute_tool takes it (they take
\* Exception), run's does
Interrupt_PublishesPartial ==
    /\ pc \in {"input", "call_first", "scan", "call_again"}
    /\ pc' = "ended"
    /\ console' = Append(console, "Goodbye!")
    /\ conversation' = IF pc = "scan" /\ tool_results # <<>>
                       THEN Append(conversation, ToolMessage(tool_results))
                       ELSE conversation
    /\ UNCHANGED <<tools, input_fn, user_input, message, idx,
                   tool_results, has_tool_use, fs, spawned, turn_status,
                   api_calls, turn_calls, dispatched, harness_vars, added,
                   advertised, stdin, turn_base>>

Interrupt_AbsorbedAsError ==
    /\ pc \in {"input", "call_first", "scan", "call_again"}
    /\ IF pc \in {"call_first", "call_again"}
       THEN /\ console' = Append(console, "Error calling Claude")
            /\ pc' = "input"
            /\ turn_status' = "ERROR"
            /\ message' = NoMessage
            /\ idx' = 1
            /\ tool_results' = <<>>
            /\ has_tool_use' = FALSE
       ELSE /\ pc' = "ended"
            /\ console' = Append(console, "Goodbye!")
            /\ UNCHANGED <<message, idx, tool_results, has_tool_use, turn_status>>
    /\ UNCHANGED <<tools, conversation, input_fn, user_input, fs, spawned,
                   api_calls, turn_calls, dispatched, harness_vars, added,
                   advertised, stdin, turn_base>>

Interrupt ==
    /\ pc \in {"input", "call_first", "scan", "call_again"}
    /\ pc' = "ended"
    /\ console' = Append(console, "Goodbye!")
    /\ UNCHANGED <<tools, conversation, input_fn, user_input, message, idx,
                   tool_results, has_tool_use, fs, spawned, turn_status,
                   api_calls, turn_calls, dispatched, harness_vars, added, advertised,
                   stdin, turn_base>>

(***************************************************************************)
(* Agent._process_conversation                                             *)
(***************************************************************************)
\* the top of the while loop, with message the reply to process
StartScan(reply) ==
    /\ message' = reply
    /\ idx' = 1
    /\ tool_results' = <<>>
    /\ has_tool_use' = FALSE
    /\ pc' = "scan"

\* _process_conversation returns to run's loop
EndTurn(status) ==
    /\ pc' = "input"
    /\ turn_status' = status
    /\ message' = NoMessage
    /\ idx' = 1
    /\ tool_results' = <<>>
    /\ has_tool_use' = FALSE

\* _call_claude returns a reply
CallReturns_AppendsLater(reply) ==
    /\ api_calls < MaxCalls
    /\ advertised' = AnthropicTools(tools)
    /\ api_calls' = api_calls + 1
    /\ turn_calls' = turn_calls + 1
    /\ StartScan(reply)
    /\ UNCHANGED <<tools, conversation, input_fn, user_input, fs, spawned,
                   console, turn_status, dispatched, harness_vars, added,
                   stdin, turn_base>>

CallReturns(reply) ==
    /\ api_calls < MaxCalls
    /\ advertised' = AnthropicTools(tools)
    /\ api_calls' = api_calls + 1
    /\ turn_calls' = turn_calls + 1
    /\ conversation' = Append(conversation, ToParam(reply))
    /\ StartScan(reply)
    /\ UNCHANGED <<tools, input_fn, user_input, fs, spawned, console, turn_status,
                   dispatched, harness_vars, added,
                   stdin, turn_base>>

\* _call_claude raises an Exception
CallRaises_AppendsPartial ==
    /\ api_calls < MaxCalls
    /\ advertised' = AnthropicTools(tools)
    /\ api_calls' = api_calls + 1
    /\ turn_calls' = turn_calls + 1
    /\ console' = Append(console, "Error calling Claude")
    /\ conversation' = Append(conversation, ToParam(NoMessage))
    /\ EndTurn("ERROR")
    /\ UNCHANGED <<tools, input_fn, user_input, fs, spawned, dispatched,
                   harness_vars, added,
                   stdin, turn_base>>

CallRaises_Reraises ==
    /\ api_calls < MaxCalls
    /\ advertised' = AnthropicTools(tools)
    /\ api_calls' = api_calls + 1
    /\ turn_calls' = turn_calls + 1
    /\ console' = Append(console, "Error calling Claude")
    /\ pc' = "crashed"
    /\ turn_status' = "ERROR"
    /\ UNCHANGED <<tools, conversation, input_fn, user_input, message, idx,
                   tool_results, has_tool_use, fs, spawned, dispatched,
                   harness_vars, added, stdin, turn_base>>

CallRaises_DropsUserMessage ==
    /\ api_calls < MaxCalls
    /\ advertised' = AnthropicTools(tools)
    /\ api_calls' = api_calls + 1
    /\ turn_calls' = turn_calls + 1
    /\ console' = Append(console, "Error calling Claude")
    /\ conversation' = SubSeq(conversation, 1, Len(conversation) - 1)
    /\ EndTurn("ERROR")
    /\ UNCHANGED <<tools, input_fn, user_input, fs, spawned, dispatched,
                   harness_vars, added, stdin, turn_base>>

CallRaises ==
    /\ api_calls < MaxCalls
    /\ advertised' = AnthropicTools(tools)
    /\ api_calls' = api_calls + 1
    /\ turn_calls' = turn_calls + 1
    /\ console' = Append(console, "Error calling Claude")
    /\ EndTurn("ERROR")
    /\ UNCHANGED <<tools, conversation, input_fn, user_input, fs, spawned,
                   dispatched, harness_vars, added,
                   stdin, turn_base>>

\* lines 144-147
CallFirst ==
    /\ pc = "call_first"
    /\ \E k \in 1..Len(Replies) :
          CallReturns(WithIds(Replies[k], Len(conversation) + 1))

\* lines 148-150
CallFirstFails ==
    /\ pc = "call_first"
    /\ CallRaises

\* lines 160-164: a text block
ScanText_Silent ==
    /\ pc = "scan"
    /\ idx <= Len(message.content)
    /\ message.content[idx].type = "text"
    /\ idx' = idx + 1
    /\ UNCHANGED <<tools, conversation, input_fn, pc, user_input, message,
                   tool_results, has_tool_use, fs, spawned, console, turn_status,
                   api_calls, turn_calls, dispatched, harness_vars, added,
                   advertised, stdin, turn_base>>

ScanText ==
    /\ pc = "scan"
    /\ idx <= Len(message.content)
    /\ message.content[idx].type = "text"
    /\ console' = console \o <<"Claude: ", message.content[idx].text>>
    /\ idx' = idx + 1
    /\ UNCHANGED <<tools, conversation, input_fn, pc, user_input, message,
                   tool_results, has_tool_use, fs, spawned, turn_status,
                   api_calls, turn_calls, dispatched, harness_vars, added, advertised,
                   stdin, turn_base>>

\* lines 184-191: the result joins tool_results
CollectResult_DropsFailures(results, tool_use, result) ==
    IF result.msg \in {"Tool not found", "Error executing tool", "File not found"}
    THEN results
    ELSE Append(results, ToolResultBlock(tool_use, result))

CollectResult_Prepends(results, tool_use, result) ==
    <<ToolResultBlock(tool_use, result)>> \o results

CollectResult(results, tool_use, result) ==
    Append(results, ToolResultBlock(tool_use, result))

\* lines 166-191: a tool_use block.  An exception that _execute_tool lets
\* through leaves _process_conversation and run, whose except clause takes
\* EOFError and KeyboardInterrupt only.
ScanToolUse ==
    /\ pc = "scan"
    /\ idx <= Len(message.content)
    /\ message.content[idx].type = "tool_use"
    /\ LET tool_use == message.content[idx]
       IN  \E r \in ExecuteTool(tools, tool_use.name, tool_use.input, fs) :
              /\ has_tool_use' = TRUE
              /\ fs' = r.fs
              /\ spawned' = spawned \o r.spawn
              /\ dispatched' = Append(dispatched,
                                      [id |-> tool_use.id, executed |-> r.executed,
                                       raised |-> r.raised])
              /\ IF r.escaped # ""
                 THEN /\ pc' = "crashed"
                      /\ console' = console \o <<"tool: ", tool_use.name>>
                      /\ UNCHANGED <<tool_results, idx>>
                 ELSE /\ pc' = pc
                      /\ console' = console \o <<"tool: ", tool_use.name, "result: ">>
                      /\ tool_results' = CollectResult(tool_results, tool_use, r.result)
                      /\ idx' = idx + 1
    /\ UNCHANGED <<tools, conversation, input_fn, user_input, message,
                   turn_status, api_calls, turn_calls, harness_vars, added, advertised,
                   stdin, turn_base>>

\* lines 193-195: no tool was used
EndScanDone_CallsAgain ==
    /\ pc = "scan"
    /\ idx > Len(message.content)
    /\ ~has_tool_use
    /\ pc' = "call_again"
    /\ UNCHANGED <<tools, conversation, input_fn, user_input, message, idx,
                   tool_results, has_tool_use, fs, spawned, console, turn_status,
                   api_calls, turn_calls, dispatched, harness_vars, added, advertised,
                   stdin, turn_base>>

EndScanDone_AppendsReply ==
    /\ pc = "scan"
    /\ idx > Len(message.content)
    /\ ~has_tool_use
    /\ conversation' = Append(conversation, ToParam(message))
    /\ EndTurn("DONE")
    /\ UNCHANGED <<tools, input_fn, user_input, fs, spawned, console,
                   api_calls, turn_calls, dispatched, harness_vars, added, advertised,
                   stdin, turn_base>>

EndScanDone_IgnoresRequests ==
    /\ pc = "scan"
    /\ idx > Len(message.content)
    /\ EndTurn("DONE")
    /\ UNCHANGED <<tools, conversation, input_fn, user_input, fs, spawned, console,
                   api_calls, turn_calls, dispatched, harness_vars, added,
                   advertised, stdin, turn_base>>

EndScanDone ==
    /\ pc = "scan"
    /\ idx > Len(message.content)
    /\ ~has_tool_use
    /\ EndTurn("DONE")
    /\ UNCHANGED <<tools, conversation, input_fn, user_input, fs, spawned, console,
                   api_calls, turn_calls, dispatched, harness_vars, added, advertised,
                   stdin, turn_base>>

\* lines 197-206: the results go to the transcript; with no results the
\* while loop starts over with the same reply
EndScanResults_CapsRounds ==
    /\ pc = "scan"
    /\ idx > Len(message.content)
    /\ has_tool_use
    /\ conversation' = Append(conversation, ToolMessage(tool_results))
    /\ IF turn_calls >= 2
       THEN EndTurn("DONE")
       ELSE /\ pc' = "call_again"
            /\ UNCHANGED <<idx, tool_results, has_tool_use, message, turn_status>>
    /\ UNCHANGED <<tools, input_fn, user_input, fs, spawned, console,
                   api_calls, turn_calls, dispatched, harness_vars, added,
                   advertised, stdin, turn_base>>

EndScanResults_Rescans ==
    /\ pc = "scan"
    /\ idx > Len(message.content)
    /\ has_tool_use
    /\ conversation' = Append(conversation, ToolMessage(tool_results))
    /\ idx' = 1
    /\ tool_results' = <<>>
    /\ UNCHANGED <<tools, input_fn, user_input, message, has_tool_use, pc, fs,
                   spawned, console, turn_status, api_calls, turn_calls,
                   dispatched, harness_vars, added, advertised, stdin,
                   turn_base>>

EndScanResults_OmitsMessage ==
    /\ pc = "scan"
    /\ idx > Len(message.content)
    /\ has_tool_use
    /\ pc' = "call_again"
    /\ UNCHANGED <<tools, conversation, input_fn, user_input, message, idx,
                   tool_results, has_tool_use, fs, spawned, console,
                   turn_status, api_calls, turn_calls, dispatched, harness_vars,
                   added, advertised, stdin, turn_base>>

EndScanResults ==
    /\ pc = "scan"
    /\ idx > Len(message.content)
    /\ has_tool_use
    /\ IF tool_results # <<>>
       THEN /\ conversation' = Append(conversation, ToolMessage(tool_results))
            /\ pc' = "call_again"
            /\ UNCHANGED <<idx, tool_results, has_tool_use>>
       ELSE /\ idx' = 1
            /\ tool_results' = <<>>
            /\ has_tool_use' = FALSE
            /\ UNCHANGED <<conversation, pc>>
    /\ UNCHANGED <<tools, input_fn, user_input, message, fs, spawned, console,
                   turn_status, api_calls, turn_calls, dispatched, harness_vars, added, advertised,
                   stdin, turn_base>>

\* lines 208-210
CallAgain ==
    /\ pc = "call_again"
    /\ \E k \in 1..Len(Replies) :
          CallReturns(WithIds(Replies[k], Len(conversation) + 1))

\* lines 211-213
CallAgainFails ==
    /\ pc = "call_again"
    /\ CallRaises

Next ==
    \/ Register
    \/ Run
    \/ \E line \in UserLines : ReadLine(line)
    \/ \E exc \in {"EOFError", "KeyboardInterrupt"} : InputEnds(exc)
    \/ Interrupt
    \/ CallFirst
    \/ CallFirstFails
    \/ ScanText
    \/ ScanToolUse
    \/ EndScanDone
    \/ EndScanResults
    \/ CallAgain
    \/ CallAgainFails

Spec == Init /\ [][Next]_vars

(***************************************************************************)
(* The steps the program takes by itself once it can: a registration or    *)
(* the start of run in main(), a remote call coming back, the scan of a    *)
(* reply, and input() at the end of the input, which returns at once.  A   *)
(* line typed by the user and an interrupt are not among them: the user    *)
(* may never type, and may never interrupt.                                *)
(***************************************************************************)
ProgramStep ==
    \/ Register
    \/ Run
    \/ stdin = "eof" /\ InputEnds("EOFError")
    \/ CallFirst
    \/ CallFirstFails
    \/ ScanText
    \/ ScanToolUse
    \/ EndScanDone
    \/ EndScanResults
    \/ CallAgain
    \/ CallAgainFails

SpecFair == Init /\ [][Next]_vars /\ WF_vars(ProgramStep)

(***************************************************************************)
(* The registry: add_tool called with any tools, two of them of one name,  *)
(* then the session up to its first remote call, which advertises them.    *)
(***************************************************************************)
\* Most add_tool calls made
MaxAdds == 3

\* the tools a caller may register: two of the package and one of their own
\* that takes the name of the first
ToolObjects ==
    {read_file_tool, list_files_tool, [name |-> "read_file", impl |-> "Tool"]}

AddAny ==
    /\ Len(added) < MaxAdds
    /\ \E tool \in ToolObjects : AddTool(tool)

NextRegistry ==
    \/ AddAny
    \/ Run
    \/ \E line \in UserLines : ReadLine(line)
    \/ CallFirst
    \/ CallFirstFails

SpecRegistry == Init /\ [][NextRegistry]_vars

(***************************************************************************)
(* A tool called on its own: _execute_tool(name, input) on an agent that   *)
(* holds every tool, with the inputs drawn from small sets.                *)
(***************************************************************************)
\* Longest old_str and new_str drawn
MaxStrLen == 1

FileChars == {"a", "b"}

\* the values a field holding a path, or a string, may be given
PathValues == {Num(7), Null} \cup {Str(p) : p \in Paths}
TextValues == {Num(7)} \cup {Str(s) : s \in StringsUpTo(FileChars, MaxStrLen)}

\* the dicts over fields, each field absent or holding one of values
Kwargs(fields, values) ==
    UNION {[present -> values] : present \in SUBSET fields}

\* edit_file's dicts: path, old_str, new_str, each absent or present
EditKwargs ==
    { [f \in present |-> IF f = "path" THEN d.path
                         ELSE IF f = "old_str" THEN d.old_str ELSE d.new_str] :
        present \in SUBSET {"path", "old_str", "new_str"},
        d \in [path : PathValues, old_str : TextValues, new_str : TextValues] }

ToolCalls ==
    {[name |-> n, input |-> kw] :
        n \in {"read_file", "list_files", "nope"}, kw \in Kwargs({"path"}, PathValues)}
    \cup {[name |-> "bash", input |-> kw] :
            kw \in Kwargs({"command"},
                          {Num(7)} \cup {Str(c) : c \in StringsUpTo(CmdAlphabet, MaxCmdLen)})}
    \cup {[name |-> "edit_file", input |-> kw] : kw \in EditKwargs}
    \cup {[name |-> "custom", input |-> <<>>]}

InitTools ==
    /\ tools = RegistrationOrder
    /\ conversation = <<>>
    /\ input_fn = "default"
    /\ pc = "off"
    /\ user_input = <<>>
    /\ message = NoMessage
    /\ idx = 1
    /\ tool_results = <<>>
    /\ has_tool_use = FALSE
    /\ fs = InitialFiles
    /\ spawned = <<>>
    /\ console = <<>>
    /\ turn_status = "none"
    /\ api_calls = 0
    /\ turn_calls = 0
    /\ dispatched = <<>>
    /\ stdin = "open"
    /\ turn_base = 0
    /\ added = RegistrationOrder
    /\ advertised = NotGiven
    /\ call_in \in ToolCalls
    /\ call_out = <<>>
    /\ call_pc = "ready"

CallTool ==
    /\ call_pc = "ready"
    /\ \E r \in ExecuteTool(tools, call_in.name, call_in.input, fs) :
          /\ call_out' = [result |-> r.result, executed |-> r.executed,
                          raised |-> r.raised, escaped |-> r.escaped]
          /\ fs' = r.fs
          /\ spawned' = spawned \o r.spawn
    /\ call_pc' = "done"
    /\ UNCHANGED <<agent_vars, call_in>>

NextTools == CallTool

SpecTools == InitTools /\ [][NextTools]_vars

(***************************************************************************)
(* The shell tool called on its own with commands that chain programs.     *)
(***************************************************************************)
\* "w" is a program the allow-list does not hold; ";" separates commands
ShellAlphabet == {"l", "s", "w", " ", ";"}

ShellCalls ==
    {[name |-> "bash", input |-> [command |-> Str(c)]] :
        c \in StringsUpTo(ShellAlphabet, MaxCmdLen)}

InitShell ==
    /\ tools = RegistrationOrder
    /\ conversation = <<>>
    /\ input_fn = "default"
    /\ pc = "off"
    /\ user_input = <<>>
    /\ message = NoMessage
    /\ idx = 1
    /\ tool_results = <<>>
    /\ has_tool_use = FALSE
    /\ fs = InitialFiles
    /\ spawned = <<>>
    /\ console = <<>>
    /\ turn_status = "none"
    /\ api_calls = 0
    /\ turn_calls = 0
    /\ dispatched = <<>>
    /\ stdin = "open"
    /\ turn_base = 0
    /\ added = RegistrationOrder
    /\ advertised = NotGiven
    /\ call_in \in ShellCalls
    /\ call_out = <<>>
    /\ call_pc = "ready"

SpecShell == InitShell /\ [][NextTools]_vars

(***************************************************************************)
(* Reading the transcript.                                                 *)
(***************************************************************************)
IsToolUse(b) == b.type = "tool_use"

\* an assistant message; a user message that holds tool results
IsReply(m) == m.role = "assistant"
IsResults(m) == m.role = "user" /\ m.form = "blocks"

\* the capability requests of a reply, in the order of the reply
Requests(m) == SelectSeq(m.content, IsToolUse)

RequestIds(m) == [i \in 1..Len(Requests(m)) |-> Requests(m)[i].id]
ResultIds(blocks) == [i \in 1..Len(blocks) |-> blocks[i].tool_use_id]

Range(s) == {s[i] : i \in 1..Len(s)}

\* the replies of the transcript that hold a request
RequestingReplies ==
    {k \in 1..Len(conversation) :
        IsReply(conversation[k]) /\ Requests(conversation[k]) # <<>>}

\* the message that opened the current turn: the last line of the user
TurnStart ==
    CHOOSE k \in 1..Len(conversation) :
        /\ conversation[k].form = "str"
        /\ \A j \in (k + 1)..Len(conversation) : conversation[j].form # "str"

\* a remote call is being made, or was made and failed, after the last message
CallFollows ==
    \/ pc = "call_again"
    \/ pc = "input" /\ turn_status = "ERROR" /\ turn_calls >= 2

\* the texts by which _execute_tool and the handlers report a failure
FailureTexts ==
    { "Tool not found", "Error executing tool", "File not found",
      "Path is not a file", "Permission denied reading file",
      "Cannot decode file as UTF-8", "Directory not found",
      "Path is not a directory", "Permission denied accessing directory",
      "Path exists but is not a file", "Permission denied writing to file",
      "Unexpected error editing file", "String not found in file",
      "Error: Empty command provided",
      "Error: Command contains dangerous pattern and is blocked for security",
      "Error: Absolute paths and executable files are not allowed",
      "Error: Command is not in the whitelist of safe commands",
      "Command timed out after 15 seconds",
      "Bash not found. This tool requires bash to be installed.",
      "Unexpected error executing command" }

IsFailure(text) == text.msg \in FailureTexts

(***************************************************************************)
(* C1.  Every reply with N >= 1 requests gets exactly N tool_result        *)
(* blocks, each with the id of a request of its own, in one user message   *)
(* that follows the reply at once; while a reply with requests is the last *)
(* message, no remote call is made.                                        *)
(***************************************************************************)
C1_EveryRequestAnswered ==
    \A k \in RequestingReplies :
        IF k = Len(conversation)
        THEN pc \in {"scan", "ended"}
        ELSE LET results == conversation[k + 1]
                 ids     == RequestIds(conversation[k])
             IN  /\ IsResults(results)
                 /\ \A j \in 1..Len(results.content) :
                       results.content[j].type = "tool_result"
                 /\ Len(results.content) = Len(ids)
                 /\ Range(ResultIds(results.content)) = Range(ids)
                 /\ Cardinality(Range(ResultIds(results.content))) = Len(ids)
                 /\ k + 2 <= Len(conversation) => ~IsResults(conversation[k + 2])

\* a reply with two requests was answered and the remote model replied again
C1_Witness ==
    \E k \in RequestingReplies :
        /\ Len(Requests(conversation[k])) = 2
        /\ k + 2 <= Len(conversation)
        /\ IsReply(conversation[k + 2])

(***************************************************************************)
(* C2.  In a turn whose first reply holds no request, one remote call is   *)
(* made and no more, no handler is dispatched, and the turn ends DONE:     *)
(* the reply stays the last message, and the turn is never at a second     *)
(* call nor in ERROR.                                                      *)
(***************************************************************************)
C2_NoRequestOneCall ==
    (/\ conversation # <<>>
     /\ TurnStart < Len(conversation)
     /\ Requests(conversation[TurnStart + 1]) = <<>>)
    => /\ turn_calls = 1
       /\ dispatched = <<>>
       /\ Len(conversation) = TurnStart + 1
       /\ pc \in {"scan", "input", "ended"}
       /\ turn_status \in {"running", "DONE"}
       /\ pc = "input" => turn_status = "DONE"
       /\ pc = "scan" => turn_status = "running" /\ ~has_tool_use

\* such a turn is over and the loop is back at the prompt
C2_Witness ==
    /\ pc = "input"
    /\ turn_status = "DONE"
    /\ turn_calls = 1
    /\ TurnStart + 1 = Len(conversation)
    /\ Requests(conversation[TurnStart + 1]) = <<>>
    /\ Len(conversation[TurnStart + 1].content) > 0

(***************************************************************************)
(* C3.  A step in which a remote call fails ends the turn in ERROR and     *)
(* leaves the transcript as it was before the call.                        *)
(***************************************************************************)
C3_FailedCallKeepsTranscript ==
    [][(/\ api_calls' = api_calls + 1
        /\ console' = Append(console, "Error calling Claude"))
       => /\ conversation' = conversation
          /\ pc' = "input"
          /\ turn_status' = "ERROR"]_vars

\* a call made after tool results failed
C3_Witness ==
    /\ pc = "input"
    /\ turn_status = "ERROR"
    /\ turn_calls = 2
    /\ IsResults(conversation[Len(conversation)])

(***************************************************************************)
(* C4.  Every tool_result block of the transcript that reports a failed    *)
(* invocation is marked is_error = true, every other one is_error = false. *)
(* A block without the field counts as is_error = false, as the remote     *)
(* interface reads it.                                                     *)
(***************************************************************************)
IsErrorFlag(block) ==
    IF "is_error" \in DOMAIN block THEN block.is_error ELSE FALSE

C4_FailuresMarkedIsError ==
    \A k \in 1..Len(conversation) :
        IsResults(conversation[k]) =>
            \A j \in 1..Len(conversation[k].content) :
                IsErrorFlag(conversation[k].content[j])
                    = IsFailure(conversation[k].content[j].content)

(***************************************************************************)
(* C5.  A request for a name that is not registered is answered by the     *)
(* not-found text for that name and nothing else, no handler runs for it,  *)
(* no exception leaves _execute_tool, and the turn goes on: the reply that *)
(* holds the request is still being scanned, or its results are in the     *)
(* transcript.                                                             *)
(***************************************************************************)
\* the result block that answers request i of message k, in the transcript
\* or still in tool_results
AnswersTo(k, i) ==
    LET id == conversation[k].content[i].id
    IN  IF k < Len(conversation)
        THEN {b \in Range(conversation[k + 1].content) : b.tool_use_id = id}
        ELSE {b \in Range(tool_results) : b.tool_use_id = id}

\* request i of message k has been dispatched
Dispatched(k, i) ==
    \/ k < Len(conversation)
    \/ k = Len(conversation) /\ pc = "scan" /\ i < idx

UnknownRequests ==
    {ki \in UNION {{<<k, i>> : i \in 1..Len(conversation[k].content)} :
                     k \in 1..Len(conversation)} :
        /\ IsReply(conversation[ki[1]])
        /\ IsToolUse(conversation[ki[1]].content[ki[2]])
        /\ conversation[ki[1]].content[ki[2]].name \notin Names(tools)}

C5_UnknownNameNotFound ==
    /\ pc # "crashed"
    /\ \A ki \in UnknownRequests :
          LET k       == ki[1]
              request == conversation[k].content[ki[2]]
          IN  /\ k = Len(conversation) => pc \in {"scan", "ended"}
              /\ k < Len(conversation) => IsResults(conversation[k + 1])
              /\ Dispatched(k, ki[2]) =>
                    /\ Cardinality(AnswersTo(k, ki[2])) = 1
                    /\ \A b \in AnswersTo(k, ki[2]) :
                          b.content = [msg |-> "Tool not found", name |-> request.name]
              /\ \A d \in Range(dispatched) :
                    d.id = request.id => ~d.executed /\ d.raised = ""

\* an unknown name was answered and the remote model was called again
C5_Witness ==
    \E ki \in UnknownRequests :
        /\ ki[1] + 2 <= Len(conversation)
        /\ IsReply(conversation[ki[1] + 2])
        /\ conversation[ki[1]].content[ki[2]].name = "nope"
        /\ tools # <<>>

(***************************************************************************)
(* C6.  A registered tool called with arguments its input schema rejects   *)
(* (a required field absent or no string, or edit_file's old_str equal to  *)
(* new_str) returns an error text, and its execute step does not run: no   *)
(* file or directory is written and no process is spawned.                 *)
(***************************************************************************)
HasString(kwargs, f) == f \in DOMAIN kwargs /\ kwargs[f].t = "str"

SchemaAccepts(name, kwargs) ==
    CASE name = "read_file" -> HasString(kwargs, "path")
      [] name = "bash" -> HasString(kwargs, "command")
      [] name = "list_files" ->
            "path" \in DOMAIN kwargs => kwargs["path"].t \in {"str", "null"}
      [] name = "edit_file" ->
            /\ HasString(kwargs, "path")
            /\ HasString(kwargs, "old_str")
            /\ HasString(kwargs, "new_str")
            /\ kwargs["old_str"].v # kwargs["new_str"].v

SchemaTools == {"read_file", "list_files", "bash", "edit_file"}

C6_InvalidArgumentsNeverExecute ==
    (/\ call_pc = "done"
     /\ call_in.name \in SchemaTools
     /\ ~SchemaAccepts(call_in.name, call_in.input))
    => /\ call_out.result.msg = "Error executing tool"
       /\ call_out.result.name = call_in.name
       /\ ~call_out.executed
       /\ call_out.escaped = ""
       /\ fs = InitialFiles
       /\ spawned = <<>>

\* edit_file was called on a path that does not exist with old_str equal to
\* new_str: executed, it would have written the file
C6_Witness ==
    /\ call_pc = "done"
    /\ call_in.name = "edit_file"
    /\ DOMAIN call_in.input = {"path", "old_str", "new_str"}
    /\ call_in.input["path"] = Str("missing.txt")
    /\ call_in.input["old_str"] = Str(<<>>)
    /\ call_in.input["new_str"] = Str(<<>>)

(***************************************************************************)
(* C9.  The shell tool, given a command that holds a deny-listed pattern   *)
(* in any letter case, returns the error text of the deny list and spawns  *)
(* no process; and a process is spawned only for the stripped command,     *)
(* which the safety validation has passed.                                 *)
(***************************************************************************)
HoldsDenied(command) ==
    \E p \in DANGEROUS_PATTERNS : Contains(p, Lower(command))

RequestOf(id) == conversation[id[1]].content[id[2]]

C7_HandlerFailureAbsorbed ==
    /\ pc # "crashed"
    /\ \A d \in Range(dispatched) :
          LET k       == d.id[1]
              request == RequestOf(d.id)
              answers == AnswersTo(k, d.id[2])
          IN  /\ (k < Len(conversation) \/ pc = "scan") =>
                    Cardinality(answers) = 1
              /\ (k < Len(conversation) \/ pc = "scan") =>
                    \A b \in answers :
                       /\ d.raised # "" =>
                             b.content = [msg |-> "Error executing tool",
                                          name |-> request.name, e |-> d.raised]
                       /\ (/\ request.name = "read_file"
                           /\ d.executed
                           /\ ~Exists(fs, request.input["path"].v)) =>
                             b.content = [msg |-> "File not found",
                                          path |-> request.input["path"].v]
              /\ k + 1 = Len(conversation) =>
                    /\ IsResults(conversation[k + 1])
                    /\ CallFollows \/ pc = "ended"
              /\ k + 1 < Len(conversation) => IsReply(conversation[k + 2])

\* a handler raised, or read_file did not find its file, and the remote
\* model was called with the result and replied
C7_WitnessRaised ==
    /\ \E d \in Range(dispatched) :
          /\ d.raised = "RuntimeError"
          /\ d.id[1] + 2 = Len(conversation)
    /\ tools = RegistrationOrder

C7_Witness ==
    \E d \in Range(dispatched) :
        /\ RequestOf(d.id).name = "read_file"
        /\ d.executed
        /\ RequestOf(d.id).input = [path |-> Str("missing.txt")]
        /\ d.id[1] + 2 = Len(conversation)
        /\ IsReply(conversation[d.id[1] + 2])

(***************************************************************************)
(* C8.  No request of a reply is skipped when another one fails: the       *)
(* results stand in the order of the requests, in tool_results while the   *)
(* reply is scanned and in the one result message after, and a remote call *)
(* follows that message: what comes after it is the reply to that call or, *)
(* when the call failed, the user line of a later turn.                    *)
(***************************************************************************)
\* the ids of the requests among the first n blocks of a reply
RECURSIVE IdsUpTo(_, _)
IdsUpTo(content, n) ==
    IF n = 0 THEN <<>>
    ELSE IF IsToolUse(content[n])
         THEN Append(IdsUpTo(content, n - 1), content[n].id)
         ELSE IdsUpTo(content, n - 1)

C8_ResultsInRequestOrder ==
    \A k \in RequestingReplies :
        LET content == conversation[k].content
        IN  /\ k < Len(conversation) =>
                  ResultIds(conversation[k + 1].content)
                      = IdsUpTo(content, Len(content))
            /\ (k = Len(conversation) /\ pc = "scan") =>
                  ResultIds(tool_results) = IdsUpTo(content, idx - 1)
            /\ k + 1 = Len(conversation) => CallFollows \/ pc = "ended"
            \* the call was answered, or it failed and a later turn began
            /\ k + 1 < Len(conversation) =>
                  \/ IsReply(conversation[k + 2])
                  \/ conversation[k + 2].form = "str"

\* of two requests the first succeeded and the second failed, and the
\* remote model replied to the two results
C8_Witness ==
    \E k \in RequestingReplies :
        /\ k + 2 <= Len(conversation)
        /\ IsReply(conversation[k + 2])
        /\ Len(conversation[k + 1].content) = 2
        /\ ~IsFailure(conversation[k + 1].content[1].content)
        /\ IsFailure(conversation[k + 1].content[2].content)

(***************************************************************************)
(* C10.  Every tool_result block of the transcript stands in a message     *)
(* that follows an assistant message, and carries the id of a request of   *)
(* that assistant message.                                                 *)
(***************************************************************************)
C10_ResultHasPrecedingRequest ==
    \A k \in 1..Len(conversation) :
        conversation[k].form = "blocks" =>
            \A j \in 1..Len(conversation[k].content) :
                conversation[k].content[j].type = "tool_result" =>
                    /\ k > 1
                    /\ IsReply(conversation[k - 1])
                    /\ \E r \in Range(Requests(conversation[k - 1])) :
                          r.id = conversation[k].content[j].tool_use_id

\* results stand in the transcript after a reply that was not the first
C10_Witness ==
    \E k \in 1..Len(conversation) :
        /\ IsResults(conversation[k])
        /\ conversation[k].content # <<>>
        /\ k < Len(conversation)

(***************************************************************************)
(* C11.  A turn of one successful call whose reply requests no capability  *)
(* leaves the transcript exactly two messages longer than it was before    *)
(* the input: the line of the user, then the message of the assistant.     *)
(***************************************************************************)
C11_PlainTurnAddsTwo ==
    (turn_status = "DONE" /\ turn_calls = 1) =>
        /\ Len(conversation) = turn_base + 2
        /\ conversation[turn_base + 1].role = "user"
        /\ conversation[turn_base + 1].form = "str"
        /\ Strip(conversation[turn_base + 1].content) # <<>>
        /\ IsReply(conversation[turn_base + 2])
        /\ Requests(conversation[turn_base + 2]) = <<>>

\* such a turn has ended, in a session whose transcript was not empty before
C11_Witness ==
    /\ turn_status = "DONE"
    /\ turn_calls = 1
    /\ turn_base >= 1
    /\ pc = "input"

(***************************************************************************)
(* C12.  Once input() has reported the end of the input, the session       *)
(* ends: run leaves its loop and prompts no more, with the default input   *)
(* function as with an injected one.                                       *)
(***************************************************************************)
C12_EndOfInputEndsSession ==
    (stdin = "eof") ~> (pc = "ended")

(***************************************************************************)
(* C13.  A turn that ends in ERROR does not end the session: the step that *)
(* fails prints the failure and returns to the prompt; from there only the *)
(* user ends the session (end of input, interrupt), and a non-empty line   *)
(* starts a new turn, whose first step out of call_first is one more       *)
(* remote call.                                                            *)
(***************************************************************************)
C13_ErrorTurnKeepsSession ==
    [][ /\ (turn_status # "ERROR" /\ turn_status' = "ERROR") =>
              /\ pc' = "input"
              /\ console'[Len(console')] = "Error calling Claude"
        /\ (turn_status = "ERROR" /\ pc = "input" /\ pc' # "input") =>
              \/ /\ pc' = "ended"
                 /\ Interrupt \/ \E exc \in {"EOFError", "KeyboardInterrupt"} :
                                   InputEnds(exc)
              \/ /\ pc' = "call_first"
                 /\ Strip(user_input') # <<>>
                 /\ conversation' = Append(conversation, UserMessage(user_input'))
        /\ (turn_status = "ERROR" /\ pc = "input" /\ pc' = "input") =>
              \/ Strip(user_input') = <<>>
              \/ UNCHANGED user_input
        /\ (pc = "call_first" /\ pc' \notin {"call_first", "ended"}) =>
              api_calls' = api_calls + 1
      ]_vars

\* after a turn whose first call failed, the next line of the user started a
\* turn and its call was made
C13_Witness ==
    /\ turn_base >= 1
    /\ conversation[turn_base].form = "str"
    /\ api_calls >= 2
    /\ turn_calls = 1
    /\ pc = "scan"

(***************************************************************************)
(* C14.  A line that is empty or holds only white space is ignored: the    *)
(* step that reads it leaves the transcript, the count of remote calls,    *)
(* the handlers' effects and the registry as they were, and the loop is    *)
(* at the prompt again.                                                    *)
(***************************************************************************)
C14_BlankLineIgnored ==
    [][ (\E line \in UserLines : Strip(line) = <<>> /\ ReadLine(line)) =>
            /\ pc' = "input"
            /\ UNCHANGED <<conversation, api_calls, turn_calls, dispatched, fs,
                           spawned, tools, turn_status>>
      ]_vars

\* a line of white space was read in a session that had a turn before
C14_Witness ==
    /\ pc = "input"
    /\ user_input = <<" ">>
    /\ Len(conversation) >= 2
    /\ console = <<"You: ">>

(***************************************************************************)
(* C15.  Registration is additive and the last write wins: after any       *)
(* add_tool calls the registry holds one entry for each name ever          *)
(* registered (so none was removed), the entry is the tool most recently   *)
(* registered under the name, and no registration failed.                  *)
(***************************************************************************)
\* the tool most recently passed to add_tool under name n
LastAdded(n) ==
    added[CHOOSE i \in 1..Len(added) :
            /\ added[i].name = n
            /\ \A j \in (i + 1)..Len(added) : added[j].name # n]

C15_RegistryLastWriteWins ==
    /\ pc # "crashed"
    /\ Names(tools) = {added[i].name : i \in 1..Len(added)}
    /\ \A n \in Names(tools) :
          /\ Cardinality({i \in 1..Len(tools) : tools[i].name = n}) = 1
          /\ Lookup(tools, n) = LastAdded(n)

\* a name was registered, then another, then the first again with another tool
C15_Witness ==
    /\ Len(added) = 3
    /\ added[1].name = added[3].name
    /\ added[1] # added[3]
    /\ added[2].name # added[1].name
    /\ Len(tools) = 2

(***************************************************************************)
(* C16.  The list advertised to the remote model on a call names the       *)
(* registered tools in the order of their registration, a name registered  *)
(* again standing where its latest registration puts it.                   *)
(***************************************************************************)
\* the registrations from the i-th on that no later one of the same name
\* overwrote, in the order they were made
RECURSIVE LatestFrom(_, _)
LatestFrom(s, i) ==
    IF i > Len(s) THEN <<>>
    ELSE IF \E j \in (i + 1)..Len(s) : s[j].name = s[i].name
         THEN LatestFrom(s, i + 1)
         ELSE <<s[i]>> \o LatestFrom(s, i + 1)

C16_AdvertisedInRegistrationOrder ==
    api_calls >= 1 =>
        LET latest == LatestFrom(added, 1)
        IN  advertised.tools = [i \in 1..Len(latest) |-> ToolParam(latest[i])]

(***************************************************************************)
(* C17.  The transcript only grows: across every step the transcript       *)
(* before is a prefix of the transcript after.                             *)
(***************************************************************************)
C17_TranscriptAppendOnly ==
    [][ /\ Len(conversation') >= Len(conversation)
        /\ SubSeq(conversation', 1, Len(conversation)) = conversation
      ]_vars

\* user input, a successful call, a dispatch with its results, a failed call
\* and an interrupt have all happened
C17_Witness ==
    /\ pc = "ended"
    /\ turn_status = "ERROR"
    /\ turn_calls = 2
    /\ Len(conversation) = turn_base + 3
    /\ IsResults(conversation[turn_base + 3])

(***************************************************************************)
(* C18.  A turn goes round call / dispatch / append for as long as the     *)
(* replies hold a request, whatever the number of rounds: the scan of a    *)
(* reply that holds a request is left for one more remote call, the scan   *)
(* of a reply that holds none for the prompt with the turn DONE; a remote  *)
(* call is left for the scan of its reply or, failed, for the prompt with  *)
(* the turn in ERROR; and the turn becomes DONE or ERROR in no other way.  *)
(***************************************************************************)
C18_TurnRepeatsWhileRequests ==
    [][ /\ (pc = "scan" /\ pc' \notin {"scan", "ended"}) =>
              IF Requests(message) # <<>>
              THEN /\ pc' = "call_again"
                   /\ turn_status' = "running"
                   /\ IsResults(conversation'[Len(conversation')])
              ELSE /\ pc' = "input"
                   /\ turn_status' = "DONE"
        /\ (pc \in {"call_first", "call_again"} /\ pc' \notin {pc, "ended"}) =>
              \/ /\ pc' = "scan"
                 /\ turn_status' = "running"
                 /\ turn_calls' = turn_calls + 1
              \/ /\ pc' = "input"
                 /\ turn_status' = "ERROR"
        /\ (turn_status # "DONE" /\ turn_status' = "DONE") =>
              pc = "scan" /\ Requests(message) = <<>>
        /\ (turn_status # "ERROR" /\ turn_status' = "ERROR") =>
              pc \in {"call_first", "call_again"}
      ]_vars

\* every call the bound allows was made in one turn, every reply held a
\* request, and the turn stands before one more call
C18_Witness ==
    /\ pc = "call_again"
    /\ turn_calls = MaxCalls
    /\ turn_status = "running"
    /\ Len(conversation) = turn_base + 1 + 2 * MaxCalls

(***************************************************************************)
(* C19.  When a handler requested by a reply is invoked, the message of    *)
(* the assistant already ends the transcript, its content blocks in the    *)
(* order of the reply; the handlers' effects on files and processes come   *)
(* with such invocations only.                                             *)
(***************************************************************************)
C19_ReplyAppendedBeforeDispatch ==
    [][ /\ Len(dispatched') > Len(dispatched) =>
              /\ conversation # <<>>
              /\ IsReply(conversation[Len(conversation)])
              /\ conversation[Len(conversation)] = ToParam(message)
              /\ IsToolUse(message.content[idx])
              /\ dispatched'[Len(dispatched')].id = message.content[idx].id
        /\ (fs' # fs \/ spawned' # spawned) => Len(dispatched') > Len(dispatched)
      ]_vars

\* the handler of a request that follows a text block in its reply has run
C19_Witness ==
    /\ pc = "scan"
    /\ Len(dispatched) = 1
    /\ dispatched[1].executed
    /\ Len(message.content) = 3
    /\ message.content[1].type = "text"
    /\ idx = 3

(***************************************************************************)
(* C20.  Every program named in a command handed to the shell, the first   *)
(* one and every one after a pipe or a command separator, is in the        *)
(* allow-list.                                                             *)
(***************************************************************************)
\* the commands a command line chains with ";" and "|"
RECURSIVE SegmentsFrom(_, _, _)
SegmentsFrom(s, i, segment) ==
    IF i > Len(s) THEN {segment}
    ELSE IF s[i] \in {";", "|"}
         THEN {segment} \cup SegmentsFrom(s, i + 1, <<>>)
         ELSE SegmentsFrom(s, i + 1, Append(segment, s[i]))

\* the programs a command line names: the first word of each of its commands
ProgramsOf(command) ==
    {Split(g)[1] : g \in {h \in SegmentsFrom(command, 1, <<>>) : Split(h) # <<>>}}

C20_OnlyAllowListedProgramsRun ==
    \A i \in 1..Len(spawned) :
        \A program \in ProgramsOf(spawned[i]) : program \in SAFE_COMMANDS

(***************************************************************************)
(* C21.  The requests of a turn are dispatched in the order they stand in  *)
(* their replies, each one once and never again in a later round; the      *)
(* handler of a request runs (once) exactly when the name is registered    *)
(* and the input passes the validation of the tool.                        *)
(***************************************************************************)
\* the ids of the requests dispatched so far in the replies from message k
\* on: all those of an earlier reply, those before idx of the last one
RECURSIVE TurnIdsFrom(_)
TurnIdsFrom(k) ==
    IF k > Len(conversation) THEN <<>>
    ELSE IF ~IsReply(conversation[k]) THEN TurnIdsFrom(k + 1)
    ELSE LET content == conversation[k].content
         IN  IdsUpTo(content, IF k = Len(conversation) THEN idx - 1 ELSE Len(content))
             \o TurnIdsFrom(k + 1)

\* the handler of the request is to run
HandlerRuns(request) ==
    /\ request.name \in Names(tools)
    /\ LET tool == Lookup(tools, request.name)
       IN  tool.impl # "Tool" => InputModel(tool, request.input).raised = ""

C21_DispatchedOnceInOrder ==
    /\ [i \in 1..Len(dispatched) |-> dispatched[i].id] = TurnIdsFrom(turn_base + 1)
    /\ \A i, j \in 1..Len(dispatched) :
          dispatched[i].id = dispatched[j].id => i = j
    /\ \A i \in 1..Len(dispatched) :
          dispatched[i].executed <=> HandlerRuns(RequestOf(dispatched[i].id))

\* two rounds of one turn dispatched requests, some to a handler that ran and
\* some that reached no handler
C21_Witness ==
    /\ Len(dispatched) >= 3
    /\ dispatched[1].id[1] # dispatched[Len(dispatched)].id[1]
    /\ \E i \in 1..Len(dispatched) : dispatched[i].executed
    /\ \E i \in 1..Len(dispatched) : ~dispatched[i].executed

(***************************************************************************)
(* C22.  As claimed: when a handler requested by a reply runs, every text  *)
(* block of that reply has been emitted, those that follow the request in  *)
(* the reply included.                                                     *)
(***************************************************************************)
C22_AllTextBeforeDispatch ==
    [][ Len(dispatched') > Len(dispatched) =>
            \A j \in 1..Len(message.content) :
                message.content[j].type = "text" => j < idx
      ]_vars

(***************************************************************************)
(* C22, amended.  The blocks of a reply are handled one by one in their    *)
(* order, a text block emitted and a request dispatched at its place: what *)
(* the console shows of a turn (texts and tool calls) is, in order, the    *)
(* blocks of its replies up to the block being scanned.  So a handler runs *)
(* after the texts that precede its request and before those that follow.  *)
(***************************************************************************)
\* the kinds of the blocks handled so far in the replies from message k on
RECURSIVE TurnKindsFrom(_)
TurnKindsFrom(k) ==
    IF k > Len(conversation) THEN <<>>
    ELSE IF ~IsReply(conversation[k]) THEN TurnKindsFrom(k + 1)
    ELSE LET content == conversation[k].content
             n       == IF k = Len(conversation) THEN idx - 1 ELSE Len(content)
         IN  [i \in 1..n |-> content[i].type] \o TurnKindsFrom(k + 1)

IsBlockMark(line) == line \in {"Claude: ", "tool: "}

\* the kinds of the blocks the console shows, in the order they were printed
ConsoleKinds ==
    LET marks == SelectSeq(console, IsBlockMark)
    IN  [i \in 1..Len(marks) |-> IF marks[i] = "Claude: " THEN "text" ELSE "tool_use"]

C22_BlocksHandledInOrder ==
    pc \in {"scan", "call_again"} => ConsoleKinds = TurnKindsFrom(turn_base + 1)

\* a handler has run and the text that follows its request is still to come
C22_Witness ==
    /\ pc = "scan"
    /\ idx = 3
    /\ Len(message.content) = 3
    /\ message.content[3].type = "text"
    /\ Len(dispatched) = 1
    /\ dispatched[1].executed
    /\ ConsoleKinds = <<"text", "tool_use">>

(***************************************************************************)
(* C23.  Results are published whole: every result message of the          *)
(* transcript follows a message of the assistant and holds one result for  *)
(* each request of that message and nothing else, also when an interrupt   *)
(* fell in the middle of the dispatch of a reply.                          *)
(***************************************************************************)
C23_ResultsPublishedWhole ==
    \A k \in 1..Len(conversation) :
        IsResults(conversation[k]) =>
            /\ k > 1
            /\ IsReply(conversation[k - 1])
            /\ Len(conversation[k].content) = Len(Requests(conversation[k - 1]))
            /\ Range(ResultIds(conversation[k].content))
                  = Range(RequestIds(conversation[k - 1]))

\* the session was interrupted after the first of two requests of a reply
\* was dispatched
C23_Witness ==
    /\ pc = "ended"
    /\ conversation # <<>>
    /\ IsReply(conversation[Len(conversation)])
    /\ Len(Requests(conversation[Len(conversation)])) = 2
    /\ Len(tool_results) = 1
    /\ Len(dispatched) = 1

(***************************************************************************)
(* C24.  An interrupt while a remote call is pending ends the session and  *)
(* leaves the transcript as it was: no message is appended, and the turn   *)
(* is not ended in ERROR with the loop back at the prompt.                 *)
(***************************************************************************)
C24_InterruptedCallEndsSession ==
    [][ (pc \in {"call_first", "call_again"} /\ Interrupt) =>
            /\ pc' = "ended"
            /\ UNCHANGED <<conversation, turn_status, api_calls>>
            /\ turn_status # "ERROR"
            /\ console'[Len(console')] = "Goodbye!"
      ]_vars

\* the session ended while the call that follows a result message was pending
C24_Witness ==
    /\ pc = "ended"
    /\ turn_status = "running"
    /\ conversation # <<>>
    /\ IsResults(conversation[Len(conversation)])
    /\ turn_calls = 1

(***************************************************************************)
(* C25.  One turn at a time: a line of the user is read, and a message of  *)
(* the user holding a line is appended, only at the prompt with no turn    *)
(* running; a running turn stands in a remote call or in the scan of a     *)
(* reply, or was cut by the end of the session.                            *)
(***************************************************************************)
C25_OneTurnAtATime ==
    [][ /\ user_input' # user_input =>
              pc = "input" /\ turn_status # "running"
        /\ (/\ Len(conversation') > Len(conversation)
            /\ conversation'[Len(conversation')].form = "str") =>
              /\ pc = "input"
              /\ turn_status # "running"
              /\ turn_status' = "running"
        /\ turn_status' = "running" =>
              pc' \in {"call_first", "scan", "call_again", "ended"}
        /\ pc' = "input" => turn_status' \in {"none", "DONE", "ERROR"}
      ]_vars

\* a second turn began after the first was DONE
C25_Witness ==
    /\ pc = "call_first"
    /\ turn_status = "running"
    /\ turn_base = 2
    /\ IsReply(conversation[2])
    /\ Len(conversation) = 3

(***************************************************************************)
(* C26.  edit_file on an existing, readable file whose content holds       *)
(* old_str replaces every occurrence of old_str (found left to right, not  *)
(* overlapping) by new_str, writes the result to the file and to no other, *)
(* and reports the number of occurrences replaced.                         *)
(***************************************************************************)
\* where old first occurs in s, s holding it
FirstIndex(s, old) ==
    CHOOSE i \in 1..(Len(s) + 1) :
        /\ OccursAt(old, s, i)
        /\ \A j \in 1..(i - 1) : ~OccursAt(old, s, j)

\* s with new for every occurrence of old: the first one replaced, then
\* those of the rest of s; the empty string occurs before every character
\* and at the end
RECURSIVE ReplacedAll(_, _, _)
ReplacedAll(s, old, new) ==
    IF old = <<>>
    THEN IF s = <<>> THEN new
         ELSE new \o <<Head(s)>> \o ReplacedAll(Tail(s), old, new)
    ELSE IF ~Contains(old, s) THEN s
         ELSE LET i == FirstIndex(s, old)
              IN  SubSeq(s, 1, i - 1) \o new
                  \o ReplacedAll(SubSeq(s, i + Len(old), Len(s)), old, new)

RECURSIVE OccurrencesIn(_, _)
OccurrencesIn(s, old) ==
    IF old = <<>> THEN Len(s) + 1
    ELSE IF ~Contains(old, s) THEN 0
         ELSE 1 + OccurrencesIn(SubSeq(s, FirstIndex(s, old) + Len(old), Len(s)), old)

\* edit_file was called with an input its schema accepts
EditCallDone ==
    /\ call_pc = "done"
    /\ call_in.name = "edit_file"
    /\ SchemaAccepts("edit_file", call_in.input)

\* the path names a file that was there, readable text, before the call
WasTextFile(path) ==
    /\ IsFile(InitialFiles, path)
    /\ InitialFiles[path].utf8
    /\ ~InitialFiles[path].locked

C26_EditReplacesEveryOccurrence ==
    EditCallDone =>
        LET path    == call_in.input["path"].v
            old_str == call_in.input["old_str"].v
            new_str == call_in.input["new_str"].v
        IN  (WasTextFile(path) /\ Contains(old_str, InitialFiles[path].data)) =>
                /\ call_out.result.msg = "Successfully edited"
                /\ call_out.result.occurrences
                      = OccurrencesIn(InitialFiles[path].data, old_str)
                /\ fs[path].kind = "file"
                /\ fs[path].data = ReplacedAll(InitialFiles[path].data, old_str, new_str)
                /\ \A q \in Paths \ {path} : fs[q] = InitialFiles[q]

\* both "a" of a.txt were replaced by "b"
C26_Witness ==
    /\ EditCallDone
    /\ call_in.input["path"].v = "a.txt"
    /\ call_in.input["old_str"].v = <<"a">>
    /\ call_in.input["new_str"].v = <<"b">>
    /\ fs["a.txt"].data = <<"b", "b">>
    /\ call_out.result.occurrences = 2

(***************************************************************************)
(* C27.  edit_file creates the file its path names when there is none:     *)
(* after a call with a valid input on a path that did not exist, the file  *)
(* exists.                                                                 *)
(***************************************************************************)
C27_EditCreatesMissingFile ==
    EditCallDone =>
        LET path == call_in.input["path"].v
        IN  ~Exists(InitialFiles, path) => IsFile(fs, path)

C29_FailedEditChangesNothing ==
    (/\ EditCallDone
     /\ call_out.result.msg \notin {"Successfully edited", "Created new file"})
    => fs = InitialFiles

(***************************************************************************)
(* C30.  When a turn has ended in DONE the transcript ends with a message  *)
(* of the assistant that holds no request, and the turn appended as many   *)
(* messages of the assistant as it made remote calls, all successful,      *)
(* which is one more than the result messages it appended.                 *)
(***************************************************************************)
\* the messages the current turn appended after the line of the user
TurnMessages == SubSeq(conversation, turn_base + 2, Len(conversation))

C30_DoneTurnCounts ==
    turn_status = "DONE" =>
        /\ conversation # <<>>
        /\ IsReply(conversation[Len(conversation)])
        /\ Requests(conversation[Len(conversation)]) = <<>>
        /\ Len(SelectSeq(TurnMessages, IsReply)) = turn_calls
        /\ Len(SelectSeq(TurnMessages, IsReply))
              = Len(SelectSeq(TurnMessages, IsResults)) + 1
        /\ Len(TurnMessages) = 2 * turn_calls - 1

\* a turn of two rounds is DONE
C30_Witness ==
    /\ turn_status = "DONE"
    /\ turn_calls = 2
    /\ Len(TurnMessages) = 3
    /\ IsResults(TurnMessages[2])

=============================================================================
